---- MODULE Spec2Model ----
(***************************************************************************)
(* AskAI (src/main.py): a FastAPI application with four routes over one    *)
(* table, conversation_history.  Handlers are plain `def` functions, so    *)
(* FastAPI runs them on a thread pool: several requests can be in flight,  *)
(* each with its own SQLAlchemy session.  A handler is cut into steps at   *)
(* the points where another request can observe or change the table: the   *)
(* lookup of delete_conversation and its commit, the completion call of    *)
(* ask_ai and its commit.  Rows reach the table only at a COMMIT.          *)
(***************************************************************************)
EXTENDS Integers, Sequences, FiniteSets, TLC

(* ---------------- bounds ---------------- *)
NumWorkers == 2
MaxId == 2
MaxLeaked == 1

Workers == 1..NumWorkers
Ids == 1..MaxId
\* ids a client may put in /delete/{convo_id}: stored, removed, or (from
\* nextId on) never created
ReqIds == Ids
\* the text a client posts as user_input (Prompt.user_input: str)
Inputs == {"hello"}
\* what response.choices[0].message.content can be: None (<<>>), or a text
Completions == {<<>>, <<"">>, <<"hi">>}
\* str(e) of the HTTPException(404) caught at line 133: status and detail
NotFoundStr == "404: Conversation not found"

VARIABLES
    table,      \* committed rows of conversation_history: id -> row
    nextId,     \* next value of the id sequence of the primary key
    clock,      \* server clock that now() reads
    pc,         \* per worker: position of the handler it runs
    local,      \* per worker: locals of the handler it runs
    sessions,   \* sessions opened by SessionLocal() and not yet closed
    last,       \* the response most recently sent
    okDeletes   \* per id: how many delete requests replied 200 for it

vars == <<table, nextId, clock, pc, local, sessions, last, okDeletes>>

NoLocal == [op |-> "none", user_input |-> "", ai_message |-> <<>>, convo_id |-> 0]
NoResponse == [op |-> "none", status |-> 0, text |-> "", rows |-> <<>>,
               convo_id |-> 0, user_input |-> "", convo |-> "unset"]

(* ---------------- pure helpers ---------------- *)
SetMax(S) == CHOOSE m \in S : \A x \in S : x <= m
SetMin(S) == CHOOSE m \in S : \A x \in S : m <= x

\* the two text columns filled from each other's argument
ConversationSwapped(id, user_input, ai_response, created_at) ==
    [id |-> id, user_input |-> ai_response, ai_response |-> user_input,
     created_at |-> created_at]
\* Conversation(user_input=..., ai_response=...) as inserted: id from the
\* sequence, created_at from the server default
Conversation(id, user_input, ai_response, created_at) ==
    [id |-> id, user_input |-> user_input, ai_response |-> ai_response,
     created_at |-> created_at]

\* id allocation by MAX(id)+1 instead of the sequence: reuses a removed top id
AllocIdMaxPlusOne(t, seq) == IF DOMAIN t = {} THEN 1 ELSE SetMax(DOMAIN t) + 1
\* the primary key is taken from the table's sequence
AllocId(t, seq) == seq

RECURSIVE OrderAsc(_, _)
OrderAsc(t, S) ==
    IF S = {} THEN <<>>
    ELSE LET m == SetMin(S) IN <<t[m]>> \o OrderAsc(t, S \ {m})
\* ordering by ascending id
OrderByIdAsc(t) == OrderAsc(t, DOMAIN t)

RECURSIVE OrderDesc(_, _)
OrderDesc(t, S) ==
    IF S = {} THEN <<>>
    ELSE LET m == SetMax(S) IN <<t[m]>> \o OrderDesc(t, S \ {m})
\* db.query(Conversation).order_by(Conversation.id.desc()).all()
OrderByIdDesc(t) == OrderDesc(t, DOMAIN t)

\* the list comprehension of get_conversation_history
FormatHistory(convs) ==
    [i \in 1..Len(convs) |->
        [id |-> convs[i].id, user_input |-> convs[i].user_input,
         ai_response |-> convs[i].ai_response, created_at |-> convs[i].created_at]]

\* a message that always names id 1
DeletedMessageFixed(convo_id) ==
    "Conversation with ID " \o ToString(1) \o " deleted successfully."
\* f"Conversation with ID {convo_id} deleted successfully."
DeletedMessage(convo_id) ==
    "Conversation with ID " \o ToString(convo_id) \o " deleted successfully."

\* DELETE ... WHERE id <= convo_id
DeleteRowUpTo(t, convo_id) == [i \in {j \in DOMAIN t : j > convo_id} |-> t[i]]
\* DELETE FROM conversation_history WHERE id = convo_id, as committed; a row
\* already gone matches nothing (SQLAlchemy only warns on the row count)
DeleteRow(t, convo_id) == [i \in DOMAIN t \ {convo_id} |-> t[i]]

\* INSERT of one row, as committed
InsertRow(t, row) == [i \in DOMAIN t \cup {row.id} |-> IF i = row.id THEN row ELSE t[i]]

\* a failed commit that leaves the flushed change in the table
RollbackKeepsChange(t, attempted) == attempted
\* a transaction that did not commit (rolled back at line 134, or abandoned
\* with its session) leaves the committed table as it was
Rollback(t, attempted) == t

\* sessions of finished requests that were never closed; a request that is
\* bound to fail without closing (its completion text is None) counts already
InFlight == Cardinality({w \in Workers : pc[w] # "idle"})
Doomed == Cardinality({w \in Workers : pc[w] = "ask_commit" /\ local[w].ai_message = <<>>})
Leaked == sessions - InFlight + Doomed
\* ids the asks in flight are about to draw from the sequence
Drawing == Cardinality({w \in Workers : pc[w] = "ask_commit"})

\* a response, with the request it answers: the path or body parameter and,
\* for delete, what the lookup at line 121 returned
Respond(op, status, text, rows, convo_id, user_input, convo) ==
    [op |-> op, status |-> status, text |-> text, rows |-> rows,
     convo_id |-> convo_id, user_input |-> user_input, convo |-> convo]

\* a new request is handed to an idle worker of the pool; the workers are
\* alike, so the first idle one stands for any
Idle(w) == pc[w] = "idle" /\ \A v \in Workers : v < w => pc[v] # "idle"

(* ---------------- state machine ---------------- *)
Init ==
    /\ table = << >>
    /\ nextId = 1
    /\ clock = 1
    /\ pc = [w \in Workers |-> "idle"]
    /\ local = [w \in Workers |-> NoLocal]
    /\ sessions = 0
    /\ last = NoResponse
    /\ okDeletes = [k \in Ids |-> 0]

\* GET /
ReadRoot(w) ==
    /\ Idle(w)
    /\ last' = Respond("root", 200, "Welcome to AskAI", <<>>, 0, "", "unset")
    /\ UNCHANGED <<table, nextId, clock, pc, local, sessions, okDeletes>>

\* POST /ask, lines 71-85: the completion call, then SessionLocal() and db.add
AskCall(w, u) ==
    /\ Idle(w)
    /\ \/ \* client.chat.completions.create or choices[0] raises
          /\ last' = Respond("ask", 500, "completion error", <<>>, 0, u, "unset")
          /\ UNCHANGED <<pc, local, sessions>>
       \/ \E c \in Completions :
          /\ nextId + Drawing <= MaxId           \* bound on the ids drawn
          /\ c = <<>> => Leaked < MaxLeaked       \* bound on the sessions left open
          /\ local' = [local EXCEPT ![w] =
                          [op |-> "ask", user_input |-> u, ai_message |-> c, convo_id |-> 0]]
          /\ pc' = [pc EXCEPT ![w] = "ask_commit"]
          /\ sessions' = sessions + 1
          /\ UNCHANGED last
    /\ UNCHANGED <<table, nextId, clock, okDeletes>>

\* the row db.commit() of ask_ai is inserting
AskRow(w) ==
    Conversation(AllocId(table, nextId), local[w].user_input,
                 local[w].ai_message[1], clock)

\* POST /ask, lines 86-92: db.commit(), db.close(), return; or the except
AskCommit(w) ==
    /\ pc[w] = "ask_commit"
    /\ pc' = [pc EXCEPT ![w] = "idle"]
    /\ local' = [local EXCEPT ![w] = NoLocal]
    /\ \/ \* ai_response NULL violates nullable=False: the INSERT is refused
          /\ local[w].ai_message = <<>>
          /\ last' = Respond("ask", 500, "integrity error", <<>>, 0,
                             local[w].user_input, "unset")
          /\ nextId' = nextId + 1     \* the refused INSERT has drawn its id
          /\ UNCHANGED <<table, clock, sessions>>
       \/ \* the flush or the COMMIT fails: line 87 is skipped
          /\ local[w].ai_message # <<>>
          /\ Leaked < MaxLeaked
          /\ table' = Rollback(table, InsertRow(table, AskRow(w)))
          /\ last' = Respond("ask", 500, "storage error", <<>>, 0,
                             local[w].user_input, "unset")
          /\ \E n \in {nextId, nextId + 1} : nextId' = n
          /\ UNCHANGED <<clock, sessions>>
       \/ \* committed
          /\ local[w].ai_message # <<>>
          /\ table' = InsertRow(table, AskRow(w))
          /\ nextId' = nextId + 1
          /\ clock' = clock + 1
          /\ sessions' = sessions - 1
          /\ last' = Respond("ask", 200, local[w].ai_message[1], <<>>, 0,
                             local[w].user_input, "unset")
    /\ UNCHANGED okDeletes

\* GET /history, lines 97-113
GetConversationHistory(w) ==
    /\ Idle(w)
    /\ \/ \* the query raises: line 100 is skipped
          /\ Leaked < MaxLeaked
          /\ sessions' = sessions + 1
          /\ last' = Respond("history", 500, "storage error", <<>>, 0, "", "unset")
       \/ /\ last' = Respond("history", 200, "", FormatHistory(OrderByIdDesc(table)),
                             0, "", "unset")
          /\ UNCHANGED sessions
    /\ UNCHANGED <<table, nextId, clock, pc, local, okDeletes>>

\* DELETE /delete/{convo_id}, lines 118-128: SessionLocal(), the lookup, the
\* 404 raised inside the try, db.delete
DelLookup(w, k) ==
    /\ Idle(w)
    /\ \/ \* the query raises: except, rollback, finally close
          /\ last' = Respond("delete", 500, "storage error", <<>>, k, "", "unset")
          /\ UNCHANGED <<pc, local, sessions>>
       \/ \* convo is None: HTTPException(404) is an Exception, so line 133
          \* catches it and line 135 raises a 500 carrying str(e)
          /\ k \notin DOMAIN table
          /\ last' = Respond("delete", 500, NotFoundStr, <<>>, k, "", "none")
          /\ UNCHANGED <<pc, local, sessions>>
       \/ /\ k \in DOMAIN table
          /\ local' = [local EXCEPT ![w] =
                          [op |-> "delete", user_input |-> "", ai_message |-> <<>>,
                           convo_id |-> k]]
          /\ pc' = [pc EXCEPT ![w] = "del_commit"]
          /\ sessions' = sessions + 1
          /\ UNCHANGED last
    /\ UNCHANGED <<table, nextId, clock, okDeletes>>

\* DELETE /delete/{convo_id}, lines 129-138: db.commit() and the reply, or
\* the except with db.rollback(); db.close() in both
DelCommit(w) ==
    /\ pc[w] = "del_commit"
    /\ pc' = [pc EXCEPT ![w] = "idle"]
    /\ local' = [local EXCEPT ![w] = NoLocal]
    /\ sessions' = sessions - 1
    /\ LET k == local[w].convo_id IN
       \/ /\ table' = Rollback(table, DeleteRow(table, k))
          /\ last' = Respond("delete", 500, "storage error", <<>>, k, "", "row")
          /\ UNCHANGED okDeletes
       \/ /\ table' = DeleteRow(table, k)
          /\ last' = Respond("delete", 200, DeletedMessage(k), <<>>, k, "", "row")
          /\ okDeletes' = [okDeletes EXCEPT ![k] = @ + 1]
    /\ UNCHANGED <<nextId, clock>>

Next ==
    \/ \E w \in Workers : ReadRoot(w)
    \/ \E w \in Workers, u \in Inputs : AskCall(w, u)
    \/ \E w \in Workers : AskCommit(w)
    \/ \E w \in Workers : GetConversationHistory(w)
    \/ \E w \in Workers, k \in ReqIds : DelLookup(w, k)
    \/ \E w \in Workers : DelCommit(w)

Spec == Init /\ [][Next]_vars

(* ---------------- steps the properties speak about ---------------- *)
AllIdle == \A w \in Workers : pc[w] = "idle"
\* worker w's ask request ends in this step
AskEnds(w) == (\E u \in Inputs : AskCall(w, u) /\ pc'[w] = "idle") \/ AskCommit(w)
\* worker w's delete request ends in this step
DeleteEnds(w) == (\E k \in ReqIds : DelLookup(w, k) /\ pc'[w] = "idle") \/ DelCommit(w)
\* the text the delete route documents for id k
SuccessText(k) == "Conversation with ID " \o ToString(k) \o " deleted successfully."
RowsOf(t) == {t[k] : k \in DOMAIN t}
Entries(rows) == {rows[i] : i \in 1..Len(rows)}

TypeOK ==
    /\ DOMAIN table \subseteq Ids
    /\ nextId \in 1..(MaxId + 1)
    /\ sessions \in 0..(NumWorkers + MaxLeaked)
    /\ \A k \in DOMAIN table : table[k].id = k

(* ---------------- C1 ---------------- *)
\* C1: a delete whose lookup finds no row with the requested id is answered
\* with status 404 and the message 'Conversation not found', never with 500.
C1_NotFoundIs404 ==
    (last.op = "delete" /\ last.convo = "none")
        => (last.status = 404 /\ last.text = "Conversation not found")

(* ---------------- C2 ---------------- *)
\* C2: when a delete of id k has just returned the success message and the
\* next request, issued with nothing else in flight, is again a delete of k
\* whose lookup query does not fail, that second delete returns 404.
C2_SecondDeleteIs404 ==
    [][\A w \in Workers, k \in Ids :
         ( /\ AllIdle
           /\ last.op = "delete" /\ last.status = 200 /\ last.convo_id = k
           /\ last.text = SuccessText(k)
           /\ DelLookup(w, k)
           /\ last'.text # "storage error" )
         => (pc'[w] = "idle" /\ last'.status = 404)]_vars

(* ---------------- C3 ---------------- *)
\* C3: a delete that found its id and whose storage calls did not fail
\* replies 200 with the message naming exactly the requested id, and no
\* history result produced afterwards contains an entry with that id.
C3_DeleteSucceeds ==
    [][ /\ \A w \in Workers :
             (DelCommit(w) /\ last'.text # "storage error")
             => /\ last'.status = 200
                /\ last'.text = SuccessText(local[w].convo_id)
                /\ \A j \in ReqIds \ {local[w].convo_id} : last'.text # SuccessText(j)
        /\ \A w \in Workers :
             (GetConversationHistory(w) /\ last'.status = 200)
             => \A i \in 1..Len(last'.rows) : okDeletes[last'.rows[i].id] = 0 ]_vars
\* a history result produced after a successful delete, other rows remaining
C3_Witness ==
    /\ last.op = "history" /\ last.status = 200 /\ Len(last.rows) > 0
    /\ \E k \in Ids : okDeletes[k] > 0

(* ---------------- C4 ---------------- *)
\* C4: a successful history request returns exactly the rows stored at that
\* moment, each once, in strictly descending id order.
C4_HistoryExactDescending ==
    [][\A w \in Workers :
         (GetConversationHistory(w) /\ last'.status = 200)
         => LET rows == last'.rows IN
            /\ Entries(rows) = RowsOf(table)
            /\ Len(rows) = Cardinality(DOMAIN table)
            /\ \A i, j \in 1..Len(rows) : i < j => rows[i].id > rows[j].id]_vars
\* a history of several rows has been returned, the newest first
C4_Witness ==
    /\ last.op = "history" /\ last.status = 200 /\ Len(last.rows) >= 2
    /\ last.rows[1].id > last.rows[2].id
    /\ Entries(last.rows) = RowsOf(table)

(* ---------------- C5 ---------------- *)
\* C5 as stated: an ask that returns 200 has stored a row under an id not
\* present before, whose user_input is the posted text and whose ai_response
\* is non-empty and is the text of the response body; a history taken next
\* lists that row.
C5_Original ==
    [][\A w \in Workers :
         (AskCommit(w) /\ last'.status = 200)
         => \E id \in DOMAIN table' \ DOMAIN table :
              /\ table'[id].user_input = local[w].user_input
              /\ table'[id].ai_response # ""
              /\ table'[id].ai_response = last'.text
              /\ table'[id] \in Entries(FormatHistory(OrderByIdDesc(table')))]_vars
\* C5 amended: the same, with ai_response not null (the completion text was
\* not None) instead of non-empty: the empty string is stored and returned.
C5_AskStoresRow ==
    [][\A w \in Workers :
         (AskCommit(w) /\ last'.status = 200)
         => \E id \in DOMAIN table' \ DOMAIN table :
              /\ table'[id].user_input = local[w].user_input
              /\ local[w].ai_message # <<>>
              /\ table'[id].ai_response = local[w].ai_message[1]
              /\ table'[id].ai_response = last'.text
              /\ table'[id] \in Entries(FormatHistory(OrderByIdDesc(table')))]_vars
\* an ask answered 200 whose row, with an empty ai_response, is in the table
C5_Witness ==
    /\ last.op = "ask" /\ last.status = 200 /\ last.user_input = "hello"
    /\ last.text = ""
    /\ \E id \in DOMAIN table :
          table[id].user_input = "hello" /\ table[id].ai_response = ""

(* ---------------- C6 ---------------- *)
\* C6: an ask that fails (completion raises, completion text None, insert or
\* commit fails) ends with 500 and leaves the table as it was; a row enters
\* the table only in the step of an ask that returns 200.
C6_FailedAskStoresNothing ==
    [][ /\ \A w \in Workers :
             AskEnds(w)
             => /\ last'.status \in {200, 500}
                /\ last'.status # 200 => table' = table
                /\ (pc[w] = "ask_commit" /\ local[w].ai_message = <<>>)
                      => last'.status = 500
        /\ (DOMAIN table' \ DOMAIN table # {})
             => \E w \in Workers : AskCommit(w) /\ last'.status = 200 ]_vars
\* an ask has failed at its commit while rows are stored
C6_Witness ==
    /\ last.op = "ask" /\ last.status = 500
    /\ last.text \in {"storage error", "integrity error"}
    /\ DOMAIN table # {}

(* ---------------- C7 ---------------- *)
\* C7: a delete of a present id that fails at the lookup or at the commit
\* ends with 500 and leaves every row, the target included, stored unchanged.
C7_FailedDeleteRollsBack ==
    [][\A w \in Workers :
         /\ \A k \in Ids :
              (DelLookup(w, k) /\ k \in DOMAIN table /\ pc'[w] = "idle")
              => (last'.status = 500 /\ table' = table)
         /\ (DelCommit(w) /\ last'.status # 200)
              => (last'.status = 500 /\ table' = table)]_vars
\* a delete that found its row was answered 500 and the row is still stored
C7_Witness ==
    /\ last.op = "delete" /\ last.status = 500 /\ last.convo = "row"
    /\ last.convo_id \in DOMAIN table

(* ---------------- C8 ---------------- *)
\* C8: whenever no request is in progress, no storage session is open.
C8_SessionsReleased == AllIdle => sessions = 0

(* ---------------- C9 ---------------- *)
\* C9: a row that stays stored keeps its id, user_input and ai_response; a
\* delete of id k removes no row other than k; root and history requests
\* leave the table unchanged.
C9_Frame ==
    [][ /\ \A id \in DOMAIN table \cap DOMAIN table' :
             /\ table'[id].id = id
             /\ table'[id].user_input = table[id].user_input
             /\ table'[id].ai_response = table[id].ai_response
        /\ \A w \in Workers :
             /\ DelCommit(w) => DOMAIN table \ DOMAIN table' \subseteq {local[w].convo_id}
             /\ (ReadRoot(w) \/ GetConversationHistory(w)) => table' = table
        /\ (DOMAIN table \ DOMAIN table' # {}) => \E w \in Workers : DelCommit(w) ]_vars
\* a delete has succeeded and a row with a lower id is still stored
C9_Witness ==
    /\ last.op = "delete" /\ last.status = 200
    /\ \E id \in DOMAIN table : id < last.convo_id

(* ---------------- C10 ---------------- *)
\* C10 as stated: of the delete requests for one id at most one returns the
\* success message.  (Two success replies for one id can only come from
\* requests that both looked the row up before either committed: ids are
\* never reused, and a lookup after the removal finds nothing.)
C10_Original == \A k \in Ids : okDeletes[k] <= 1
\* C10 amended: for concurrent deletes of one present id, the row leaves the
\* table in the first commit that succeeds and never again, no other row is
\* touched, every request whose commit succeeds returns the success message
\* (so both may), a failed commit changes nothing, and a request whose
\* lookup finds the row gone ends with an error status.
C10_ConcurrentDeletes ==
    [][ /\ \A w \in Workers :
             DelCommit(w)
             => LET k == local[w].convo_id IN
                /\ last'.status = 200
                     => /\ DOMAIN table' = DOMAIN table \ {k}
                        /\ \A id \in DOMAIN table' : table'[id] = table[id]
                        /\ last'.text = SuccessText(k)
                /\ last'.status # 200 => table' = table
                /\ (k \in DOMAIN table /\ k \notin DOMAIN table') => okDeletes[k] = 0
        /\ \A k \in Ids : okDeletes'[k] > 0 => k \notin DOMAIN table'
        /\ (last'.op = "delete" /\ last'.convo = "none") => last'.status >= 400 ]_vars
\* both of two concurrent deletes of one id have returned the success message
C10_Witness ==
    /\ \E k \in Ids : okDeletes[k] = 2
    /\ last.op = "delete" /\ last.status = 200
====
